---- MODULE Spec2Model ----
(***************************************************************************)
(* Risk Detection & Scoring Engine of the Romanian public procurement      *)
(* platform (src/unnamed/part_001, "Risk Detection Algorithms Design").    *)
(*                                                                         *)
(* Scores are points 0..100.  The composite score is kept in hundredths of *)
(* a point (sub-score times weight-in-percent), so that the weights 0.30,  *)
(* 0.25, 0.25, 0.20 and the thresholds 30, 60, 80 stay integers: a         *)
(* composite of 62.5 points is 6250.  Means, standard deviations, z-scores *)
(* and coefficients of variation are compared exactly, as rationals, by    *)
(* cross-multiplying (n*Sum(x^2) - Sum(x)^2 is n^2 times the variance).    *)
(***************************************************************************)
EXTENDS Integers, Sequences, FiniteSets, TLC

(***************************************************************************)
(* Bounds of the model.                                                    *)
(***************************************************************************)
MaxBids == 2
MaxVersion == 2
MaxHistory == 3
MaxProbeBids == 3

(***************************************************************************)
(* Thresholds and weights set by the detectors' constructors.              *)
(***************************************************************************)
single_bidder_base_score == 75
high_value_threshold == 500000
critical_cpv_codes == {"45000000", "72000000", "79000000"}
repeat_authority_threshold == 3
min_historical_samples == 10
isolation_forest_min_samples == 20
min_tender_count == 5
min_cluster_size == 3

DefaultWeights ==
    [single_bidder_detection |-> 30, price_anomaly_detection |-> 25,
     frequent_winner_detection |-> 25, geographic_clustering_detection |-> 20]

risk_level_thresholds ==
    [low |-> 0, medium |-> 3000, high |-> 6000, critical |-> 8000]

(***************************************************************************)
(* Small arithmetic helpers (numpy's sum, min, max over a list).           *)
(***************************************************************************)
Min(a, b) == IF a < b THEN a ELSE b

RECURSIVE Sum(_)
Sum(s) == IF s = <<>> THEN 0 ELSE Head(s) + Sum(Tail(s))

RECURSIVE SumSq(_)
SumSq(s) == IF s = <<>> THEN 0 ELSE Head(s) * Head(s) + SumSq(Tail(s))

RECURSIVE MaxOf(_)
MaxOf(s) == IF Len(s) = 1 THEN Head(s)
            ELSE LET m == MaxOf(Tail(s)) IN IF Head(s) > m THEN Head(s) ELSE m

\* n^2 times the population variance (np.std's default, ddof = 0) of s
VarN(s) == Len(s) * SumSq(s) - Sum(s) * Sum(s)

(***************************************************************************)
(* What a detector call leaves in the caller's local variable.             *)
(***************************************************************************)
Pending == [status |-> "pending"]
Raised == [status |-> "raised"]
Ok(score, factors) ==
    [status |-> "ok", risk_score |-> score, risk_factors |-> factors]

\* create_empty_result(): not in src/; spec 4.3/4.4 "empty result (score 0, no tags)"
create_empty_result == Ok(0, <<>>)

\* a sub-analysis dict {"risk_score": .., "risk_factors": ..}
Part(score, factors) == [risk_score |-> score, risk_factors |-> factors]
NoPart == Part(0, <<>>)

(***************************************************************************)
(* 1. SingleBidderRiskDetector.analyze_tender_risk                         *)
(*    tender: [estimated_value, cpv_code]; bids: the tender's bid amounts; *)
(*    authority_count: count_authority_single_bidder_tenders(.., 365).     *)
(*    The return statement reads authority_single_bidder_count, a local    *)
(*    that is bound only inside "if len(bids) == 1": with any other bid    *)
(*    count the read raises UnboundLocalError.                             *)
(***************************************************************************)
\* mutant: the sum is returned without min(risk_score, 100.0)
SingleBidderNoClamp(risk_score) == risk_score

SingleBidderClamp(risk_score) == Min(risk_score, 100)

analyze_tender_risk(tender, bids, authority_count) ==
    IF Len(bids) = 1
    THEN LET hv == tender.estimated_value > high_value_threshold
             cs == tender.cpv_code \in critical_cpv_codes
             ra == authority_count >= repeat_authority_threshold
             risk_score == single_bidder_base_score
                           + (IF hv THEN 15 ELSE 0)
                           + (IF cs THEN 10 ELSE 0)
                           + (IF ra THEN 20 ELSE 0)
             risk_factors == <<"single_bidder">>
                           \o (IF hv THEN <<"high_value_single_bidder">> ELSE <<>>)
                           \o (IF cs THEN <<"critical_sector_single_bidder">> ELSE <<>>)
                           \o (IF ra THEN <<"repeat_authority_single_bidder">> ELSE <<>>)
         IN Ok(SingleBidderClamp(risk_score), risk_factors)
    ELSE Raised

\* what result.scalar() gives when the query has no row
None == -1

\* count_authority_single_bidder_tenders: return result.scalar() or 0
count_authority_single_bidder_tenders(scalar) ==
    IF scalar = None THEN 0 ELSE scalar

(***************************************************************************)
(* 2. PriceAnomalyDetector                                                 *)
(***************************************************************************)
\* z_score > z_score_threshold (2.5), with z_score = |price - mean| / std when
\* std > 0 and 0 otherwise:  4 * (n*price - S)^2 > 25 * (n*Q - S^2)
\* mutant: the division is not guarded by "if historical_std > 0"; numpy then
\* yields inf for a price off the mean and nan for a price on it
ZScoreExceedsUnguarded(price, historical_prices) ==
    LET n == Len(historical_prices)
        d == n * price - Sum(historical_prices)
    IN 4 * d * d > 25 * VarN(historical_prices)

ZScoreExceeds(price, historical_prices) ==
    LET n == Len(historical_prices)
        d == n * price - Sum(historical_prices)
    IN /\ VarN(historical_prices) > 0
       /\ 4 * d * d > 25 * VarN(historical_prices)

BelowMean(price, historical_prices) ==
    Len(historical_prices) * price < Sum(historical_prices)

\* the loop "for price in current_prices" of detect_statistical_outliers
RECURSIVE OutlierLoop(_, _)
OutlierLoop(current_prices, historical_prices) ==
    IF current_prices = <<>> THEN NoPart
    ELSE LET price == Head(current_prices)
             rest == OutlierLoop(Tail(current_prices), historical_prices)
             here == IF ZScoreExceeds(price, historical_prices)
                     THEN IF BelowMean(price, historical_prices)
                          THEN Part(25, <<"unusually_low_price">>)
                          ELSE Part(15, <<"unusually_high_price">>)
                     ELSE NoPart
         IN Part(here.risk_score + rest.risk_score,
                 here.risk_factors \o rest.risk_factors)

\* anomaly_score is what isolation_forest_analysis returns, in hundredths
\* (sklearn's IsolationForest is outside the repository: its answer is an input)
detect_statistical_outliers(current_prices, historical_prices, anomaly_score) ==
    IF historical_prices = <<>> THEN NoPart
    ELSE LET loop == OutlierLoop(current_prices, historical_prices)
             iso == IF /\ Len(historical_prices) >= isolation_forest_min_samples
                       /\ anomaly_score > 50
                    THEN Part(20, <<"price_pattern_anomaly">>)
                    ELSE NoPart
         IN Part(loop.risk_score + iso.risk_score,
                 loop.risk_factors \o iso.risk_factors)

\* cv = std / mean if mean > 0 else 0, compared with 0.05 and 0.5
CvBelow5Percent(prices) ==
    IF Sum(prices) > 0 THEN 400 * VarN(prices) < Sum(prices) * Sum(prices)
    ELSE TRUE

CvAbove50Percent(prices) ==
    IF Sum(prices) > 0 THEN 4 * VarN(prices) > Sum(prices) * Sum(prices)
    ELSE FALSE

\* mutant: the similar-bids test asks for len(bids) >= 2
analyze_bid_spread_from_two(bids) ==
    IF Len(bids) < 2 THEN NoPart
    ELSE LET similar == IF CvBelow5Percent(bids) /\ Len(bids) >= 2
                        THEN Part(30, <<"suspiciously_similar_bids">>)
                        ELSE NoPart
             spread == IF CvAbove50Percent(bids)
                       THEN Part(15, <<"unusual_bid_spread">>)
                       ELSE NoPart
         IN Part(similar.risk_score + spread.risk_score,
                 similar.risk_factors \o spread.risk_factors)

analyze_bid_spread(bids) ==
    IF Len(bids) < 2 THEN NoPart
    ELSE LET similar == IF CvBelow5Percent(bids) /\ Len(bids) > 2
                        THEN Part(30, <<"suspiciously_similar_bids">>)
                        ELSE NoPart
             spread == IF CvAbove50Percent(bids)
                       THEN Part(15, <<"unusual_bid_spread">>)
                       ELSE NoPart
         IN Part(similar.risk_score + spread.risk_score,
                 similar.risk_factors \o spread.risk_factors)

\* mutant: the sum is returned unclamped
PriceAnomalyNoClamp(risk_score) == risk_score

PriceAnomalyClamp(risk_score) == Min(risk_score, 100)

\* mutant: the sample is only tested for being non-empty
HasEnoughHistoryNonEmpty(historical_data) == Len(historical_data) >= 1

\* len(historical_data) >= self.anomaly_thresholds["min_historical_samples"]
HasEnoughHistory(historical_data) ==
    Len(historical_data) >= min_historical_samples

\* winner_analysis is what analyze_winner_price(bids, estimated_value) returns
analyze_price_anomaly(bids, historical_data, anomaly_score, winner_analysis) ==
    IF bids = <<>> THEN create_empty_result
    ELSE LET outlier == IF HasEnoughHistory(historical_data)
                        THEN detect_statistical_outliers(bids, historical_data,
                                                         anomaly_score)
                        ELSE NoPart
             spread == IF Len(bids) > 1 THEN analyze_bid_spread(bids) ELSE NoPart
         IN Ok(PriceAnomalyClamp(outlier.risk_score + spread.risk_score
                                 + winner_analysis.risk_score),
               outlier.risk_factors \o spread.risk_factors
               \o winner_analysis.risk_factors)

(***************************************************************************)
(* 3. FrequentWinnerDetector                                               *)
(*    A participation record is [participations, wins].                    *)
(***************************************************************************)
\* mutant: the minimum participation count is not tested
ReachesDivisionAlways(stats) == TRUE

\* "if total_participations < min_tender_count: return" of lines 372-373 and
\* 416-417: only a call that passes it goes on to win_rate = wins / participations
ReachesDivision(stats) == ~(stats.participations < min_tender_count)

\* mutant: the second threshold is compared with > instead of >=
analyze_authority_win_rate_strict(stats) ==
    IF ~ReachesDivision(stats) THEN NoPart
    ELSE LET high == 10 * stats.wins >= 6 * stats.participations
             extreme == 10 * stats.wins > 8 * stats.participations
         IN Part((IF high THEN 40 ELSE 0) + (IF extreme THEN 20 ELSE 0),
                 (IF high THEN <<"high_authority_win_rate">> ELSE <<>>)
                 \o (IF extreme THEN <<"extremely_high_authority_win_rate">>
                     ELSE <<>>))

analyze_authority_win_rate(stats) ==
    IF ~ReachesDivision(stats) THEN NoPart
    ELSE LET high == 10 * stats.wins >= 6 * stats.participations
             extreme == 10 * stats.wins >= 8 * stats.participations
         IN Part((IF high THEN 40 ELSE 0) + (IF extreme THEN 20 ELSE 0),
                 (IF high THEN <<"high_authority_win_rate">> ELSE <<>>)
                 \o (IF extreme THEN <<"extremely_high_authority_win_rate">>
                     ELSE <<>>))

analyze_sector_win_rate(stats) ==
    IF ~ReachesDivision(stats) THEN NoPart
    ELSE IF 10 * stats.wins >= 4 * stats.participations
         THEN Part(25, <<"high_sector_win_rate">>)
         ELSE NoPart

\* monthly_wins: the values of get_monthly_win_distribution, month by month
analyze_temporal_patterns(monthly_wins) ==
    IF monthly_wins = <<>> THEN NoPart
    ELSE LET n == Len(monthly_wins)
             S == Sum(monthly_wins)
             \* cv < 0.3 and mean_wins > 1
             consistent == /\ (IF S > 0 THEN 100 * VarN(monthly_wins) < 9 * S * S
                               ELSE TRUE)
                           /\ S > n
             \* max_wins > mean_wins + 2 * std_wins
             d == n * MaxOf(monthly_wins) - S
             spike == d * d > 4 * VarN(monthly_wins)
         IN Part((IF consistent THEN 15 ELSE 0) + (IF spike THEN 10 ELSE 0),
                 (IF consistent THEN <<"consistent_monthly_wins">> ELSE <<>>)
                 \o (IF spike THEN <<"win_concentration_spike">> ELSE <<>>))

FrequentWinnerClamp(risk_score) == Min(risk_score, 100)

\* geographic_analysis is what analyze_geographic_win_rate returns
analyze_frequent_winner_risk(has_winning_bid, authority_stats, sector_stats, geographic_analysis, monthly_wins) ==
    IF ~has_winning_bid THEN create_empty_result
    ELSE LET a == analyze_authority_win_rate(authority_stats)
             s == analyze_sector_win_rate(sector_stats)
             t == analyze_temporal_patterns(monthly_wins)
         IN Ok(FrequentWinnerClamp(a.risk_score + s.risk_score
                                   + geographic_analysis.risk_score + t.risk_score),
               a.risk_factors \o s.risk_factors
               \o geographic_analysis.risk_factors \o t.risk_factors)

(***************************************************************************)
(* 4. GeographicClusteringDetector                                         *)
(*    cluster: [total_tenders, wins] of analyze_cluster_performance over   *)
(*    find_nearby_authorities; distance_analysis is what                   *)
(*    analyze_company_authority_distance returns.                          *)
(***************************************************************************)
GeographicClamp(risk_score) == Min(risk_score, 100)

\* mutant: the cluster win rate is compared with > 0.7 instead of >= 0.7
analyze_geographic_clustering_strict(has_winning_bid, has_authority_location, cluster, distance_analysis) ==
    IF ~has_winning_bid THEN create_empty_result
    ELSE IF ~has_authority_location THEN create_empty_result
    ELSE LET sized == cluster.total_tenders >= min_cluster_size
             high == sized /\ 10 * cluster.wins > 7 * cluster.total_tenders
             mono == sized /\ 10 * cluster.wins >= 9 * cluster.total_tenders
         IN Ok(GeographicClamp((IF high THEN 35 ELSE 0) + (IF mono THEN 25 ELSE 0)
                               + distance_analysis.risk_score),
               (IF high THEN <<"high_geographic_cluster_win_rate">> ELSE <<>>)
               \o (IF mono THEN <<"geographic_monopoly_pattern">> ELSE <<>>)
               \o distance_analysis.risk_factors)

analyze_geographic_clustering(has_winning_bid, has_authority_location, cluster, distance_analysis) ==
    IF ~has_winning_bid THEN create_empty_result
    ELSE IF ~has_authority_location THEN create_empty_result
    ELSE LET sized == cluster.total_tenders >= min_cluster_size
             high == sized /\ 10 * cluster.wins >= 7 * cluster.total_tenders
             mono == sized /\ 10 * cluster.wins >= 9 * cluster.total_tenders
         IN Ok(GeographicClamp((IF high THEN 35 ELSE 0) + (IF mono THEN 25 ELSE 0)
                               + distance_analysis.risk_score),
               (IF high THEN <<"high_geographic_cluster_win_rate">> ELSE <<>>)
               \o (IF mono THEN <<"geographic_monopoly_pattern">> ELSE <<>>)
               \o distance_analysis.risk_factors)

(***************************************************************************)
(* RiskScoreCalculator                                                     *)
(***************************************************************************)
\* mutant: the thresholds compared with > instead of >=
determine_risk_level_strict(score) ==
    IF score > risk_level_thresholds.critical THEN "critical"
    ELSE IF score > risk_level_thresholds.high THEN "high"
    ELSE IF score > risk_level_thresholds.medium THEN "medium"
    ELSE "low"

\* score in hundredths of a point
determine_risk_level(score) ==
    IF score >= risk_level_thresholds.critical THEN "critical"
    ELSE IF score >= risk_level_thresholds.high THEN "high"
    ELSE IF score >= risk_level_thresholds.medium THEN "medium"
    ELSE "low"

\* RiskPatternDetector: the state of its run and the patterns of its last
\* completed run; nothing of RiskScoreCalculator reads it
VARIABLE pattern_run

\* mutant: an active pattern is used as a multiplier of the weighted sum
WeightedScoreWithPatterns(weights, sb, pa, fw, geo) ==
    (IF pattern_run.patterns # <<>> THEN 2 ELSE 1)
    * (sb.risk_score * weights.single_bidder_detection
       + pa.risk_score * weights.price_anomaly_detection
       + fw.risk_score * weights.frequent_winner_detection
       + geo.risk_score * weights.geographic_clustering_detection)

\* lines 650-655: the weighted sum, in hundredths of a point; it is returned as
\* overall_risk_score as it is
WeightedScore(weights, sb, pa, fw, geo) ==
    sb.risk_score * weights.single_bidder_detection
    + pa.risk_score * weights.price_anomaly_detection
    + fw.risk_score * weights.frequent_winner_detection
    + geo.risk_score * weights.geographic_clustering_detection

\* lines 658-663: the four lists, one after the other
AllRiskFactors(sb, pa, fw, geo) ==
    sb.risk_factors \o pa.risk_factors \o fw.risk_factors \o geo.risk_factors

\* lines 649-682, once the four detector calls have returned
ComposeResult(weights, sb, pa, fw, geo) ==
    LET weighted_score == WeightedScore(weights, sb, pa, fw, geo)
    IN [overall_risk_score |-> weighted_score,
        risk_level |-> determine_risk_level(weighted_score),
        single_bidder_risk |-> sb.risk_score,
        price_anomaly_risk |-> pa.risk_score,
        frequency_risk |-> fw.risk_score,
        geographic_risk |-> geo.risk_score,
        risk_factors |-> AllRiskFactors(sb, pa, fw, geo)]

(***************************************************************************)
(* RiskAlertGenerator                                                      *)
(*    risk_analysis is the dict of calculate_composite_risk_score, its     *)
(*    overall_risk_score in hundredths of a point.  An alert keeps its     *)
(*    alert_type, severity and recommended_actions.                        *)
(***************************************************************************)
alert_thresholds ==
    [high_risk_tender |-> 6000, critical_risk_tender |-> 8000,
     pattern_detection |-> 7000, authority_risk_spike |-> 5000]

get_recommended_actions(risk_factors) ==
    LET has(tag) == \E i \in 1..Len(risk_factors) : risk_factors[i] = tag
        actions ==
            (IF has("single_bidder")
             THEN <<"Investigate market conditions and bidder eligibility">>
             ELSE <<>>)
            \o (IF has("unusually_low_price")
                THEN <<"Review bid evaluation criteria and financial capacity">>
                ELSE <<>>)
            \o (IF has("high_authority_win_rate")
                THEN <<"Audit contracting authority procedures">> ELSE <<>>)
            \o (IF has("geographic_monopoly_pattern")
                THEN <<"Investigate regional market competition">> ELSE <<>>)
    IN IF actions # <<>> THEN actions
       ELSE <<"General risk assessment recommended">>

\* mutant: the composite score is compared with > instead of >=
high_risk_tender_alert_strict(risk_analysis) ==
    IF risk_analysis.overall_risk_score > alert_thresholds.high_risk_tender
    THEN <<[alert_type |-> "high_risk_tender",
            severity |-> IF risk_analysis.overall_risk_score > 8000
                         THEN "high" ELSE "medium",
            recommended_actions |->
                get_recommended_actions(risk_analysis.risk_factors)]>>
    ELSE <<>>

\* lines 784-793
high_risk_tender_alert(risk_analysis) ==
    IF risk_analysis.overall_risk_score >= alert_thresholds.high_risk_tender
    THEN <<[alert_type |-> "high_risk_tender",
            severity |-> IF risk_analysis.overall_risk_score >= 8000
                         THEN "high" ELSE "medium",
            recommended_actions |->
                get_recommended_actions(risk_analysis.risk_factors)]>>
    ELSE <<>>

\* mutant: the dedicated alert is only appended after a high_risk_tender alert
single_bidder_risk_alert_nested(risk_analysis) ==
    IF /\ risk_analysis.overall_risk_score >= alert_thresholds.high_risk_tender
       /\ risk_analysis.single_bidder_risk >= 75
    THEN <<[alert_type |-> "single_bidder_risk", severity |-> "high",
            recommended_actions |-> <<"Investigate market conditions",
                                      "Review tender specifications">>]>>
    ELSE <<>>

\* lines 795-803
single_bidder_risk_alert(risk_analysis) ==
    IF risk_analysis.single_bidder_risk >= 75
    THEN <<[alert_type |-> "single_bidder_risk", severity |-> "high",
            recommended_actions |-> <<"Investigate market conditions",
                                      "Review tender specifications">>]>>
    ELSE <<>>

generate_alerts(risk_analysis) ==
    high_risk_tender_alert(risk_analysis) \o single_bidder_risk_alert(risk_analysis)

(***************************************************************************)
(* What the detectors read from the database when they are called: the     *)
(* tender row, the historical aggregates, and the answers of the helpers   *)
(* that src/ calls but does not hold.  E is a record of sets, one per      *)
(* query; FullEnv is used for one assessment at a time, NarrowEnv where    *)
(* assessments overlap.                                                    *)
(***************************************************************************)
\* against Hist10 and Hist20 (mean 100, std 2) 80 is a low outlier, 400 a high one
Prices == {80, 400}

HistShort == <<100, 100, 100>>
Hist9 == [i \in 1..9 |-> IF i % 2 = 0 THEN 98 ELSE 102]
Hist10 == [i \in 1..10 |-> IF i % 2 = 0 THEN 98 ELSE 102]
Hist20 == [i \in 1..20 |-> IF i % 2 = 0 THEN 98 ELSE 102]

\* analyze_winner_price, analyze_geographic_win_rate and
\* analyze_company_authority_distance are called but not defined in src/: each
\* answers with nothing or with one bounded contribution of its own
WinnerPriceScore == 20
GeographicWinRateScore == 30
DistanceScore == 15
winner_price_answers == {NoPart, Part(WinnerPriceScore, <<"winner_price_deviation">>)}
geographic_win_rate_answers ==
    {NoPart, Part(GeographicWinRateScore, <<"high_geographic_win_rate">>)}
distance_answers == {NoPart, Part(DistanceScore, <<"company_authority_distance">>)}

Stats(p, w) == [participations |-> p, wins |-> w]
Cluster(t, w) == [total_tenders |-> t, wins |-> w]

FullEnv ==
    [prices |-> Prices,
     tenders |-> [estimated_value : {500000, 600000},
                  cpv_code : {"45000000", "33000000"}],
     authority_counts |-> {0, 3},
     historical |-> {HistShort, Hist10, Hist20},
     anomaly_scores |-> {25, 75},
     winner_analyses |-> winner_price_answers,
     authority_stats |-> {Stats(4, 4), Stats(10, 6), Stats(10, 8)},
     sector_stats |-> {Stats(10, 3), Stats(10, 4)},
     geographic_analyses |-> geographic_win_rate_answers,
     monthly |-> {<<>>, <<2, 2, 2>>},
     locations |-> BOOLEAN,
     clusters |-> {Cluster(2, 2), Cluster(10, 7), Cluster(10, 9)},
     distance_analyses |-> distance_answers]

NarrowEnv ==
    [prices |-> {80, 100},
     tenders |-> {[estimated_value |-> 600000, cpv_code |-> "45000000"]},
     authority_counts |-> {3},
     historical |-> {Hist10},
     anomaly_scores |-> {25},
     winner_analyses |-> {NoPart},
     authority_stats |-> {Stats(10, 8)},
     sector_stats |-> {Stats(10, 4)},
     geographic_analyses |-> {NoPart},
     monthly |-> {<<>>},
     locations |-> {TRUE},
     clusters |-> {Cluster(10, 9)},
     distance_analyses |-> {NoPart}]

(***************************************************************************)
(* State: one tender, the workers assessing it, the cache and the result   *)
(* table (pattern_run is declared with RiskScoreCalculator).               *)
(***************************************************************************)
VARIABLES
    bids,               \* the tender's bid amounts, in submission order
    winner,             \* index of the bid with is_winner, 0 before the award
    algorithm_weights,  \* RiskScoreCalculator.algorithm_weights (percent)
    algorithm_version,  \* version of the deployed algorithms
    pc,                 \* per worker: where its assessment stands
    det,                \* per worker: the four detector results so far
    result,             \* per worker: the dict the assessment returned
    call,               \* per worker: what the assessment was started on
    cache,              \* the Redis value under "risk_score:<tender_id>"
    history,            \* the tender's rows of tender_risk_scores, oldest first
    other,              \* a second tender: its bids, winner and cache entry
    probe               \* one detector called on its own: its inputs and output

vars == <<bids, winner, algorithm_weights, algorithm_version, pc, det, result,
          call, cache, history, pattern_run, other, probe>>

(***************************************************************************)
(* Initial state                                                           *)
(***************************************************************************)
Workers == {"w1", "w2"}
Detectors == {"single_bidder", "price_anomaly", "frequent_winner", "geographic"}

NoResult == [status |-> "none"]
NoCall == [data_version |-> 0, algorithm_version |-> 0, served_by |-> "none",
           cached_under |-> 0]
NoEntry == [status |-> "none"]

\* number of ingestion events the tender has seen: its source data version
DataVersion == Len(bids) + (IF winner > 0 THEN 1 ELSE 0)

InitWith(weights) ==
    /\ bids = <<>>
    /\ winner = 0
    /\ algorithm_weights = weights
    /\ algorithm_version = 1
    /\ pc = [w \in Workers |-> "idle"]
    /\ det = [w \in Workers |-> [d \in Detectors |-> Pending]]
    /\ result = [w \in Workers |-> NoResult]
    /\ call = [w \in Workers |-> NoCall]
    /\ cache = NoEntry
    /\ history = <<>>
    /\ pattern_run = [status |-> "idle", patterns |-> <<>>]
    /\ other = [bids |-> <<100>>, winner |-> 0, cache |-> NoEntry]
    /\ probe = [fn |-> "none"]

Init == InitWith(DefaultWeights)

(***************************************************************************)
(* Ingestion (the storage collaborator): bids are appended until the award *)
(* marks one of them as the winner.                                        *)
(***************************************************************************)
NewBid(E) ==
    /\ winner = 0
    /\ Len(bids) < MaxBids
    /\ \E p \in E.prices : bids' = Append(bids, p)
    /\ UNCHANGED <<winner, algorithm_weights, algorithm_version, pc, det, result,
                   call, cache, history, pattern_run, other, probe>>

Award ==
    /\ winner = 0
    /\ \E i \in 1..Len(bids) : winner' = i
    /\ UNCHANGED <<bids, algorithm_weights, algorithm_version, pc, det, result,
                   call, cache, history, pattern_run, other, probe>>

(***************************************************************************)
(* calculate_composite_risk_score, statement by statement.  pc[w] names    *)
(* the detector call that is in flight.                                    *)
(***************************************************************************)
\* mutant: the weighted sum is computed before the geographic detector is called
AfterDetectorSkipping(d) ==
    CASE d = "single_bidder" -> "price_anomaly"
      [] d = "price_anomaly" -> "frequent_winner"
      [] d = "frequent_winner" -> "aggregate"
      [] d = "geographic" -> "aggregate"

\* the statement that follows the call of detector d (lines 644-649)
AfterDetector(d) ==
    CASE d = "single_bidder" -> "price_anomaly"
      [] d = "price_anomaly" -> "frequent_winner"
      [] d = "frequent_winner" -> "geographic"
      [] d = "geographic" -> "aggregate"

\* the detector call at pc[w] ends with outcome r: a raised exception leaves
\* calculate_composite_risk_score at once (it has no try/except)
DetectorEnds(w, d, r) ==
    /\ det' = [det EXCEPT ![w][d] = r]
    /\ pc' = [pc EXCEPT ![w] = IF r.status = "ok" THEN AfterDetector(d)
                                ELSE "raised"]
    /\ UNCHANGED <<bids, winner, algorithm_weights, algorithm_version, result,
                   call, cache, history, pattern_run, other, probe>>

Call(w) ==
    /\ pc[w] = "idle"
    /\ pc' = [pc EXCEPT ![w] = "single_bidder"]
    /\ call' = [call EXCEPT ![w] = [data_version |-> DataVersion,
                                    algorithm_version |-> algorithm_version,
                                    served_by |-> "computation",
                                    cached_under |-> 0]]
    /\ UNCHANGED <<bids, winner, algorithm_weights, algorithm_version, det,
                   result, cache, history, pattern_run, other, probe>>

RunSingleBidder(w, E) ==
    /\ pc[w] = "single_bidder"
    /\ \E tender \in E.tenders, c \in E.authority_counts :
          DetectorEnds(w, "single_bidder", analyze_tender_risk(tender, bids, c))

RunPriceAnomaly(w, E) ==
    /\ pc[w] = "price_anomaly"
    /\ \E h \in E.historical, a \in E.anomaly_scores, wa \in E.winner_analyses :
          DetectorEnds(w, "price_anomaly", analyze_price_anomaly(bids, h, a, wa))

RunFrequentWinner(w, E) ==
    /\ pc[w] = "frequent_winner"
    /\ \E a \in E.authority_stats, s \in E.sector_stats,
          g \in E.geographic_analyses, m \in E.monthly :
          DetectorEnds(w, "frequent_winner",
                       analyze_frequent_winner_risk(winner > 0, a, s, g, m))

RunGeographic(w, E) ==
    /\ pc[w] = "geographic"
    /\ \E loc \in E.locations, c \in E.clusters, da \in E.distance_analyses :
          DetectorEnds(w, "geographic",
                       analyze_geographic_clustering(winner > 0, loc, c, da))

\* a detector's database query fails: the exception reaches the caller
DetectorFault(w) ==
    /\ pc[w] \in Detectors
    /\ DetectorEnds(w, pc[w], Raised)

\* a detector's database query never answers: no call carries a timeout
DetectorHang(w) ==
    /\ pc[w] \in Detectors
    /\ pc' = [pc EXCEPT ![w] = "hung"]
    /\ UNCHANGED <<bids, winner, algorithm_weights, algorithm_version, det,
                   result, call, cache, history, pattern_run, other, probe>>

\* lines 649-682
Aggregate(w) ==
    /\ pc[w] = "aggregate"
    /\ result' = [result EXCEPT ![w] =
                    ComposeResult(algorithm_weights, det[w]["single_bidder"],
                                  det[w]["price_anomaly"],
                                  det[w]["frequent_winner"],
                                  det[w]["geographic"])]
    /\ pc' = [pc EXCEPT ![w] = "computed"]
    /\ UNCHANGED <<bids, winner, algorithm_weights, algorithm_version, det, call,
                   cache, history, pattern_run, other, probe>>

\* the caller has its answer (a dict or an exception); the worker is free again
Release(w, ends) ==
    /\ pc[w] \in ends
    /\ pc' = [pc EXCEPT ![w] = "idle"]
    /\ det' = [det EXCEPT ![w] = [d \in Detectors |-> Pending]]
    /\ result' = [result EXCEPT ![w] = NoResult]
    /\ call' = [call EXCEPT ![w] = NoCall]
    /\ UNCHANGED <<bids, winner, algorithm_weights, algorithm_version, cache,
                   history, pattern_run, other, probe>>

(***************************************************************************)
(* One caller of calculate_composite_risk_score at a time.                 *)
(***************************************************************************)
Next ==
    \/ NewBid(FullEnv)
    \/ Award
    \/ Call("w1")
    \/ RunSingleBidder("w1", FullEnv)
    \/ RunPriceAnomaly("w1", FullEnv)
    \/ RunFrequentWinner("w1", FullEnv)
    \/ RunGeographic("w1", FullEnv)
    \/ DetectorFault("w1")
    \/ DetectorHang("w1")
    \/ Aggregate("w1")
    \/ Release("w1", {"computed", "raised"})

Spec == Init /\ [][Next]_vars

(***************************************************************************)
(* The same caller under configured weights (percent): the weights are a   *)
(* field of the calculator that configuration may set before it is used.   *)
(***************************************************************************)
\* risk_algorithms.weight is DECIMAL(3,2) DEFAULT 1.0: a row left at its default
\* weighs its algorithm 1.00
ConfiguredWeights ==
    {DefaultWeights,
     [single_bidder_detection |-> 100, price_anomaly_detection |-> 100,
      frequent_winner_detection |-> 100, geographic_clustering_detection |-> 100]}

InitCfg == \E weights \in ConfiguredWeights : InitWith(weights)

CfgSpec == InitCfg /\ [][Next]_vars

(***************************************************************************)
(* RiskAnalysisCache and assess(tender_id): the cache is looked up first,  *)
(* a miss falls through to calculate_composite_risk_score and stores what  *)
(* it returned.  The stored JSON is the result alone; data_version and     *)
(* algorithm_version of an entry are ghost fields that record the call     *)
(* that wrote it and are not part of the Redis value.                      *)
(***************************************************************************)
\* get_cached_risk_score: the key is "risk_score:<tender_id>"; redis_client.get
\* raises when Redis cannot be reached
get_cached_risk_score ==
    IF cache.status = "unreachable" THEN Raised
    ELSE IF cache = NoEntry THEN NoResult ELSE cache.value

\* mutant: the value is written with no lifetime left, so the key holds nothing
cache_risk_score_lost(risk_analysis, written_by) == NoEntry

\* cache_risk_score: setex of the key, whatever it holds
cache_risk_score(risk_analysis, written_by) ==
    [status |-> "cached", value |-> risk_analysis,
     data_version |-> written_by.data_version,
     algorithm_version |-> written_by.algorithm_version]

AssessCached(w) ==
    /\ pc[w] = "idle"
    /\ get_cached_risk_score \notin {NoResult, Raised}
    /\ result' = [result EXCEPT ![w] = get_cached_risk_score]
    /\ call' = [call EXCEPT ![w] = [data_version |-> DataVersion,
                                    algorithm_version |-> algorithm_version,
                                    served_by |-> "cache",
                                    cached_under |-> cache.algorithm_version]]
    /\ pc' = [pc EXCEPT ![w] = "returned"]
    /\ UNCHANGED <<bids, winner, algorithm_weights, algorithm_version, det, cache,
                   history, pattern_run, other, probe>>

AssessLive(w) ==
    /\ get_cached_risk_score = NoResult
    /\ Call(w)

Store(w) ==
    /\ pc[w] = "computed"
    /\ cache.status # "unreachable"
    /\ cache' = cache_risk_score(result[w], call[w])
    /\ pc' = [pc EXCEPT ![w] = "returned"]
    /\ UNCHANGED <<bids, winner, algorithm_weights, algorithm_version, det,
                   result, call, history, pattern_run, other, probe>>

\* cache_ttl["risk_score"] seconds after the write Redis drops the key
CacheExpire ==
    /\ cache.status = "cached"
    /\ cache' = NoEntry
    /\ UNCHANGED <<bids, winner, algorithm_weights, algorithm_version, pc, det,
                   result, call, history, pattern_run, other, probe>>

\* a new version of the algorithms is deployed
UpgradeAlgorithm ==
    /\ algorithm_version < MaxVersion
    /\ algorithm_version' = algorithm_version + 1
    /\ UNCHANGED <<bids, winner, algorithm_weights, pc, det, result, call, cache,
                   history, pattern_run, other, probe>>

WorkerStep(w) ==
    \/ AssessCached(w)
    \/ AssessLive(w)
    \/ RunSingleBidder(w, NarrowEnv)
    \/ RunPriceAnomaly(w, NarrowEnv)
    \/ RunFrequentWinner(w, NarrowEnv)
    \/ RunGeographic(w, NarrowEnv)
    \/ DetectorFault(w)
    \/ DetectorHang(w)
    \/ Aggregate(w)
    \/ Store(w)
    \/ Release(w, {"returned", "raised"})

NextConc ==
    \/ NewBid(NarrowEnv)
    \/ Award
    \/ UpgradeAlgorithm
    \/ CacheExpire
    \/ \E w \in Workers : WorkerStep(w)

ConcSpec == Init /\ [][NextConc]_vars

(***************************************************************************)
(* assess(tender_id) while Redis comes and goes.  Both methods of          *)
(* RiskAnalysisCache let the client's exception through; assess treats a   *)
(* failed lookup as a miss and a failed write as no write (spec 4.8 and    *)
(* CacheUnavailable).                                                      *)
(***************************************************************************)
\* the Redis server or the network to it goes away
RedisDown ==
    /\ cache.status # "unreachable"
    /\ cache' = [status |-> "unreachable", held |-> cache]
    /\ UNCHANGED <<bids, winner, algorithm_weights, algorithm_version, pc, det,
                   result, call, history, pattern_run, other, probe>>

\* Redis is back: with what it held, or restarted empty
RedisUp ==
    /\ cache.status = "unreachable"
    /\ cache' \in {cache.held, NoEntry}
    /\ UNCHANGED <<bids, winner, algorithm_weights, algorithm_version, pc, det,
                   result, call, history, pattern_run, other, probe>>

\* the lookup raised: live computation
AssessCacheDown(w) ==
    /\ pc[w] = "idle"
    /\ get_cached_risk_score = Raised
    /\ pc' = [pc EXCEPT ![w] = "single_bidder"]
    /\ call' = [call EXCEPT ![w] = [data_version |-> DataVersion,
                                    algorithm_version |-> algorithm_version,
                                    served_by |-> "fallback",
                                    cached_under |-> 0]]
    /\ UNCHANGED <<bids, winner, algorithm_weights, algorithm_version, det,
                   result, cache, history, pattern_run, other, probe>>

\* the write raised: the computed result is returned all the same
StoreFails(w) ==
    /\ pc[w] = "computed"
    /\ cache.status = "unreachable"
    /\ pc' = [pc EXCEPT ![w] = "returned"]
    /\ UNCHANGED <<bids, winner, algorithm_weights, algorithm_version, det,
                   result, call, cache, history, pattern_run, other, probe>>

NextCache ==
    \/ NewBid(NarrowEnv)
    \/ Award
    \/ UpgradeAlgorithm
    \/ CacheExpire
    \/ RedisDown
    \/ RedisUp
    \/ AssessCacheDown("w1")
    \/ StoreFails("w1")
    \/ WorkerStep("w1")

CacheSpec == Init /\ [][NextCache]_vars

(***************************************************************************)
(* assess(tender_id) with the result table: every computed RiskScoreResult *)
(* becomes a row of tender_risk_scores (id is a fresh UUID, tender_id is   *)
(* not unique), then the cache is repopulated.  No code of src/ writes the *)
(* table; the insert is modelled from spec 3, "previous results retained   *)
(* as history (append-only), never overwritten - only superseded".         *)
(***************************************************************************)
\* a row of tender_risk_scores
RiskScoreRow(risk_analysis, made_by) ==
    [overall_risk_score |-> risk_analysis.overall_risk_score,
     risk_level |-> risk_analysis.risk_level,
     single_bidder_risk |-> risk_analysis.single_bidder_risk,
     price_anomaly_risk |-> risk_analysis.price_anomaly_risk,
     frequency_risk |-> risk_analysis.frequency_risk,
     geographic_risk |-> risk_analysis.geographic_risk,
     risk_flags |-> risk_analysis.risk_factors,
     analysis_version |-> made_by.algorithm_version]

\* mutant: the tender's row is updated in place (UPDATE instead of INSERT)
SaveRiskScoreInPlace(rows, row) == <<row>>

\* INSERT INTO tender_risk_scores
SaveRiskScore(rows, row) == Append(rows, row)

Record(w) ==
    /\ pc[w] = "computed"
    /\ cache.status # "unreachable"
    /\ Len(history) < MaxHistory
    /\ history' = SaveRiskScore(history, RiskScoreRow(result[w], call[w]))
    /\ cache' = cache_risk_score(result[w], call[w])
    /\ pc' = [pc EXCEPT ![w] = "returned"]
    /\ UNCHANGED <<bids, winner, algorithm_weights, algorithm_version, det,
                   result, call, pattern_run, other, probe>>

NextHistory ==
    \/ NewBid(NarrowEnv)
    \/ Award
    \/ UpgradeAlgorithm
    \/ CacheExpire
    \/ AssessCached("w1")
    \/ AssessLive("w1")
    \/ RunSingleBidder("w1", NarrowEnv)
    \/ RunPriceAnomaly("w1", NarrowEnv)
    \/ RunFrequentWinner("w1", NarrowEnv)
    \/ RunGeographic("w1", NarrowEnv)
    \/ DetectorFault("w1")
    \/ Aggregate("w1")
    \/ Record("w1")
    \/ Release("w1", {"returned", "raised"})

HistorySpec == Init /\ [][NextHistory]_vars

(***************************************************************************)
(* RiskPatternDetector: a job of its own over all tenders of the window.   *)
(* calculate_composite_risk_score neither calls it nor reads what it       *)
(* found.  One (company, authority) group of detect_company_monopoly's     *)
(* query is [total_wins, authority_tenders].                               *)
(***************************************************************************)
\* HAVING COUNT(*) >= 5 AND COUNT(*) > 0.6 * (the authority's tenders)
\* mutant: HAVING COUNT(*) >= 60% of the authority's tenders instead of >
detect_company_monopoly_from_60(group) ==
    IF /\ group.total_wins >= 5
       /\ 10 * group.total_wins >= 6 * group.authority_tenders
    THEN <<[pattern_type |-> "company_monopoly",
            pattern_score |-> Min(group.total_wins * 10, 100),
            total_wins |-> group.total_wins]>>
    ELSE <<>>

detect_company_monopoly(group) ==
    IF /\ group.total_wins >= 5
       /\ 10 * group.total_wins > 6 * group.authority_tenders
    THEN <<[pattern_type |-> "company_monopoly",
            pattern_score |-> Min(group.total_wins * 10, 100),
            total_wins |-> group.total_wins]>>
    ELSE <<>>

\* detect_authority_favoritism, detect_sector_concentration and
\* detect_temporal_clustering are registered but not defined in src/: together
\* they answer with nothing or with one pattern of their own
other_pattern_answers ==
    {<<>>, <<[pattern_type |-> "authority_favoritism", pattern_score |-> 50,
              total_wins |-> 0]>>}

\* detect_patterns: the detectors' lists, one after the other
detect_patterns(group, others) == detect_company_monopoly(group) \o others

MonopolyGroups ==
    [total_wins : {4, 5, 12}, authority_tenders : {8, 20}]

PatternRunStarts ==
    /\ pattern_run.status = "idle"
    /\ pattern_run' = [pattern_run EXCEPT !.status = "running"]
    /\ UNCHANGED <<bids, winner, algorithm_weights, algorithm_version, pc, det,
                   result, call, cache, history, other, probe>>

PatternRunEnds ==
    /\ pattern_run.status = "running"
    /\ \E group \in MonopolyGroups, others \in other_pattern_answers :
          pattern_run' = [status |-> "idle",
                          patterns |-> detect_patterns(group, others)]
    /\ UNCHANGED <<bids, winner, algorithm_weights, algorithm_version, pc, det,
                   result, call, cache, history, other, probe>>

\* a query of the run raises: the job is gone until it is started again
PatternFault ==
    /\ pattern_run.status = "running"
    /\ pattern_run' = [pattern_run EXCEPT !.status = "unavailable"]
    /\ UNCHANGED <<bids, winner, algorithm_weights, algorithm_version, pc, det,
                   result, call, cache, history, other, probe>>

PatternRecover ==
    /\ pattern_run.status = "unavailable"
    /\ pattern_run' = [pattern_run EXCEPT !.status = "idle"]
    /\ UNCHANGED <<bids, winner, algorithm_weights, algorithm_version, pc, det,
                   result, call, cache, history, other, probe>>

NextPattern ==
    \/ PatternRunStarts
    \/ PatternRunEnds
    \/ PatternFault
    \/ PatternRecover
    \/ NewBid(NarrowEnv)
    \/ Award
    \/ Call("w1")
    \/ RunSingleBidder("w1", NarrowEnv)
    \/ RunPriceAnomaly("w1", NarrowEnv)
    \/ RunFrequentWinner("w1", NarrowEnv)
    \/ RunGeographic("w1", NarrowEnv)
    \/ DetectorFault("w1")
    \/ Aggregate("w1")
    \/ Release("w1", {"computed", "raised"})

PatternSpec == Init /\ [][NextPattern]_vars

(***************************************************************************)
(* Two tenders assessed at the same time: worker w1 assesses the tender of *)
(* bids, winner and cache (id "A"), worker w2 the tender of other (id      *)
(* "B").  Every call builds its own detector objects, so the locals of a   *)
(* call (pc, det, result) belong to its worker; Redis is shared and holds  *)
(* one entry per key.                                                      *)
(***************************************************************************)
\* mutant: the key is built without the tender id
cache_key_shared(tender_id) == "A"

\* cache_key = f"risk_score:{tender_id}"
cache_key(tender_id) == tender_id

\* redis_client.get(cache_key)
redis_get(key) == IF key = "A" THEN cache ELSE other.cache

\* redis_client.setex(cache_key, ttl, value)
redis_setex(key, entry) ==
    IF key = "A" THEN cache' = entry /\ other' = other
    ELSE cache' = cache /\ other' = [other EXCEPT !.cache = entry]

\* what the detectors read about tender "B"
OtherEnv ==
    [prices |-> {100},
     tenders |-> {[estimated_value |-> 500000, cpv_code |-> "33000000"]},
     authority_counts |-> {0},
     historical |-> {Hist10},
     anomaly_scores |-> {25},
     winner_analyses |-> {NoPart},
     authority_stats |-> {Stats(10, 6)},
     sector_stats |-> {Stats(10, 3)},
     geographic_analyses |-> {NoPart},
     monthly |-> {<<>>},
     locations |-> {TRUE},
     clusters |-> {Cluster(10, 7)},
     distance_analyses |-> {NoPart}]

OtherDataVersion == Len(other.bids) + (IF other.winner > 0 THEN 1 ELSE 0)

OtherAward ==
    /\ other.winner = 0
    /\ \E i \in 1..Len(other.bids) : other' = [other EXCEPT !.winner = i]
    /\ UNCHANGED <<bids, winner, algorithm_weights, algorithm_version, pc, det,
                   result, call, cache, history, pattern_run, probe>>

OtherCacheExpire ==
    /\ other.cache.status = "cached"
    /\ other' = [other EXCEPT !.cache = NoEntry]
    /\ UNCHANGED <<bids, winner, algorithm_weights, algorithm_version, pc, det,
                   result, call, cache, history, pattern_run, probe>>

OtherAssessCached(w) ==
    /\ pc[w] = "idle"
    /\ redis_get(cache_key("B")).status = "cached"
    /\ result' = [result EXCEPT ![w] = redis_get(cache_key("B")).value]
    /\ call' = [call EXCEPT ![w] =
                   [data_version |-> OtherDataVersion,
                    algorithm_version |-> algorithm_version,
                    served_by |-> "cache",
                    cached_under |-> redis_get(cache_key("B")).algorithm_version]]
    /\ pc' = [pc EXCEPT ![w] = "returned"]
    /\ UNCHANGED <<bids, winner, algorithm_weights, algorithm_version, det, cache,
                   history, pattern_run, other, probe>>

OtherAssessLive(w) ==
    /\ pc[w] = "idle"
    /\ redis_get(cache_key("B")).status = "none"
    /\ pc' = [pc EXCEPT ![w] = "single_bidder"]
    /\ call' = [call EXCEPT ![w] = [data_version |-> OtherDataVersion,
                                    algorithm_version |-> algorithm_version,
                                    served_by |-> "computation",
                                    cached_under |-> 0]]
    /\ UNCHANGED <<bids, winner, algorithm_weights, algorithm_version, det,
                   result, cache, history, pattern_run, other, probe>>

OtherRunSingleBidder(w, E) ==
    /\ pc[w] = "single_bidder"
    /\ \E tender \in E.tenders, c \in E.authority_counts :
          DetectorEnds(w, "single_bidder",
                       analyze_tender_risk(tender, other.bids, c))

OtherRunPriceAnomaly(w, E) ==
    /\ pc[w] = "price_anomaly"
    /\ \E h \in E.historical, a \in E.anomaly_scores, wa \in E.winner_analyses :
          DetectorEnds(w, "price_anomaly",
                       analyze_price_anomaly(other.bids, h, a, wa))

OtherRunFrequentWinner(w, E) ==
    /\ pc[w] = "frequent_winner"
    /\ \E a \in E.authority_stats, s \in E.sector_stats,
          g \in E.geographic_analyses, m \in E.monthly :
          DetectorEnds(w, "frequent_winner",
                       analyze_frequent_winner_risk(other.winner > 0, a, s, g, m))

OtherRunGeographic(w, E) ==
    /\ pc[w] = "geographic"
    /\ \E loc \in E.locations, c \in E.clusters, da \in E.distance_analyses :
          DetectorEnds(w, "geographic",
                       analyze_geographic_clustering(other.winner > 0, loc, c, da))

OtherStore(w) ==
    /\ pc[w] = "computed"
    /\ redis_setex(cache_key("B"), cache_risk_score(result[w], call[w]))
    /\ pc' = [pc EXCEPT ![w] = "returned"]
    /\ UNCHANGED <<bids, winner, algorithm_weights, algorithm_version, det,
                   result, call, history, pattern_run, probe>>

NextTwoTenders ==
    \/ NewBid(NarrowEnv)
    \/ Award
    \/ CacheExpire
    \/ AssessCached("w1")
    \/ AssessLive("w1")
    \/ RunSingleBidder("w1", NarrowEnv)
    \/ RunPriceAnomaly("w1", NarrowEnv)
    \/ RunFrequentWinner("w1", NarrowEnv)
    \/ RunGeographic("w1", NarrowEnv)
    \/ Aggregate("w1")
    \/ Store("w1")
    \/ Release("w1", {"returned", "raised"})
    \/ OtherAward
    \/ OtherCacheExpire
    \/ OtherAssessCached("w2")
    \/ OtherAssessLive("w2")
    \/ OtherRunSingleBidder("w2", OtherEnv)
    \/ OtherRunPriceAnomaly("w2", OtherEnv)
    \/ OtherRunFrequentWinner("w2", OtherEnv)
    \/ OtherRunGeographic("w2", OtherEnv)
    \/ Aggregate("w2")
    \/ OtherStore("w2")
    \/ Release("w2", {"returned", "raised"})

TwoTenderSpec == Init /\ [][NextTwoTenders]_vars

(***************************************************************************)
(* A detector called on its own, once, on any input of a bounded set: the  *)
(* call's inputs and what it returned are kept in probe.                   *)
(***************************************************************************)
SeqsUpTo(S, n) == UNION {[1..k -> S] : k \in 0..n}

ProbeTenders ==
    [estimated_value : {499999, 500000, 500001},
     cpv_code : {"45000000", "72000000", "33000000"}]

ProbeScalars == {None, 0, 2, 3, 5}

ProbeSingleBidder ==
    /\ probe.fn = "none"
    /\ \E tender \in ProbeTenders, b \in SeqsUpTo({80, 100}, MaxBids),
          scalar \in ProbeScalars :
          probe' = [fn |-> "analyze_tender_risk", tender |-> tender, bids |-> b,
                    scalar |-> scalar,
                    out |-> analyze_tender_risk(
                               tender, b,
                               count_authority_single_bidder_tenders(scalar))]
    /\ UNCHANGED <<bids, winner, algorithm_weights, algorithm_version, pc, det,
                   result, call, cache, history, pattern_run, other>>

SingleBidderSpec == Init /\ [][ProbeSingleBidder]_vars

\* 100, 100, 102 lie within 2% of each other; 80 and 400 are far apart and
\* both outliers against a history around 100; bids of 0 have mean 0
ProbePrices == {0, 80, 100, 102, 400}

\* ten equal historical prices have standard deviation 0; ten zeros have
\* mean 0 as well
HistFlat10 == [i \in 1..10 |-> 100]
HistZero10 == [i \in 1..10 |-> 0]

ProbePriceAnomaly ==
    /\ probe.fn = "none"
    /\ \E b \in SeqsUpTo(ProbePrices, MaxProbeBids),
          h \in {HistShort, Hist9, Hist10, Hist20, HistFlat10, HistZero10},
          a \in {25, 75}, wa \in winner_price_answers :
          probe' = [fn |-> "analyze_price_anomaly", bids |-> b,
                    historical_data |-> h, anomaly_score |-> a,
                    winner_analysis |-> wa,
                    out |-> analyze_price_anomaly(b, h, a, wa)]
    /\ UNCHANGED <<bids, winner, algorithm_weights, algorithm_version, pc, det,
                   result, call, cache, history, pattern_run, other>>

PriceAnomalySpec == Init /\ [][ProbePriceAnomaly]_vars

\* participation records on both sides of min_tender_count and of the win-rate
\* thresholds 0.6 and 0.8 (authority) and 0.4 (sector)
ProbeAuthorityStats ==
    {Stats(0, 0), Stats(4, 0), Stats(4, 4), Stats(5, 2), Stats(5, 3), Stats(5, 4),
     Stats(10, 5), Stats(10, 6), Stats(10, 7), Stats(10, 8), Stats(10, 10)}

ProbeSectorStats ==
    {Stats(0, 0), Stats(4, 4), Stats(5, 1), Stats(5, 2), Stats(10, 3), Stats(10, 4)}

ProbeMonthlyWins == {<<>>, <<2, 2, 2>>, <<0, 0, 6>>}

\* the divisors of the win_rate divisions a call evaluates, in call order
WinRateDivisors(has_winning_bid, authority_stats, sector_stats) ==
    IF ~has_winning_bid THEN <<>>
    ELSE (IF ReachesDivision(authority_stats)
          THEN <<authority_stats.participations>> ELSE <<>>)
         \o (IF ReachesDivision(sector_stats)
             THEN <<sector_stats.participations>> ELSE <<>>)

ProbeFrequentWinner ==
    /\ probe.fn = "none"
    /\ \E hw \in BOOLEAN, a \in ProbeAuthorityStats, s \in ProbeSectorStats,
          g \in geographic_win_rate_answers, m \in ProbeMonthlyWins :
          probe' = [fn |-> "analyze_frequent_winner_risk", has_winning_bid |-> hw,
                    authority_stats |-> a, sector_stats |-> s,
                    geographic_analysis |-> g, monthly_wins |-> m,
                    divisors |-> WinRateDivisors(hw, a, s),
                    out |-> analyze_frequent_winner_risk(hw, a, s, g, m)]
    /\ UNCHANGED <<bids, winner, algorithm_weights, algorithm_version, pc, det,
                   result, call, cache, history, pattern_run, other>>

FrequentWinnerSpec == Init /\ [][ProbeFrequentWinner]_vars

\* cluster records on both sides of min_cluster_size and of the win-rate
\* thresholds 0.7 and 0.9
ProbeClusters ==
    {Cluster(0, 0), Cluster(2, 2), Cluster(3, 2), Cluster(3, 3), Cluster(10, 6),
     Cluster(10, 7), Cluster(10, 8), Cluster(10, 9), Cluster(10, 10),
     Cluster(20, 13), Cluster(20, 14), Cluster(20, 18)}

\* analyze_company_authority_distance(company_id, authority_id) is the only
\* call that could read the company's coordinates; without them it is taken
\* to find nothing
DistanceAnswersFor(has_company_location) ==
    IF has_company_location THEN distance_answers ELSE {NoPart}

ProbeGeographic ==
    /\ probe.fn = "none"
    /\ \E hw \in BOOLEAN, al \in BOOLEAN, cl \in BOOLEAN, c \in ProbeClusters :
          \E da \in DistanceAnswersFor(cl) :
             probe' = [fn |-> "analyze_geographic_clustering",
                       has_winning_bid |-> hw, has_authority_location |-> al,
                       has_company_location |-> cl, cluster |-> c,
                       distance_analysis |-> da,
                       out |-> analyze_geographic_clustering(hw, al, c, da)]
    /\ UNCHANGED <<bids, winner, algorithm_weights, algorithm_version, pc, det,
                   result, call, cache, history, pattern_run, other>>

GeographicSpec == Init /\ [][ProbeGeographic]_vars

\* result dicts with the composite score on both sides of 30, 60 and 80 and
\* the single-bidder sub-score on both sides of 75
\* one (company, authority) group of the monopoly query: the company's wins
\* and the authority's tenders published since the cutoff date, and the
\* company's wins published before it, which the WHERE clause leaves out
ProbeGroups ==
    {g \in [total_wins : 1..12, authority_tenders : 1..20, older_wins : {0, 6}] :
        g.total_wins <= g.authority_tenders}

ProbeMonopoly ==
    /\ probe.fn = "none"
    /\ \E group \in ProbeGroups :
          probe' = [fn |-> "detect_company_monopoly", group |-> group,
                    out |-> detect_company_monopoly(group)]
    /\ UNCHANGED <<bids, winner, algorithm_weights, algorithm_version, pc, det,
                   result, call, cache, history, pattern_run, other>>

MonopolySpec == Init /\ [][ProbeMonopoly]_vars

ProbeRiskAnalyses ==
    {[overall_risk_score |-> o, risk_level |-> determine_risk_level(o),
      single_bidder_risk |-> sb, risk_factors |-> f] :
        o \in {0, 2999, 3000, 5999, 6000, 6001, 7999, 8000, 8001, 10000},
        sb \in {0, 74, 75, 85, 100},
        f \in {<<>>, <<"single_bidder">>,
               <<"single_bidder", "unusually_low_price">>}}

ProbeAlerts ==
    /\ probe.fn = "none"
    /\ \E ra \in ProbeRiskAnalyses :
          probe' = [fn |-> "generate_alerts", source |-> "given",
                    risk_analysis |-> ra, out |-> generate_alerts(ra)]
    /\ UNCHANGED <<bids, winner, algorithm_weights, algorithm_version, pc, det,
                   result, call, cache, history, pattern_run, other>>

AlertProbeSpec == Init /\ [][ProbeAlerts]_vars

(***************************************************************************)
(* The caller hands the dict it got from calculate_composite_risk_score to *)
(* generate_alerts; the alerts go to the notification collaborator and the *)
(* worker is free again.  A call that raised has no dict to hand over.     *)
(***************************************************************************)
GenerateAlerts(w) ==
    /\ pc[w] = "computed"
    /\ probe.fn = "none"
    /\ probe' = [fn |-> "generate_alerts", source |-> "assessment",
                 risk_analysis |-> result[w], bid_count |-> Len(bids),
                 data_unchanged |-> (call[w].data_version = DataVersion),
                 out |-> generate_alerts(result[w])]
    /\ pc' = [pc EXCEPT ![w] = "alerted"]
    /\ UNCHANGED <<bids, winner, algorithm_weights, algorithm_version, det,
                   result, call, cache, history, pattern_run, other>>

AlertsDelivered(w) ==
    /\ pc[w] = "alerted"
    /\ pc' = [pc EXCEPT ![w] = "idle"]
    /\ det' = [det EXCEPT ![w] = [d \in Detectors |-> Pending]]
    /\ result' = [result EXCEPT ![w] = NoResult]
    /\ call' = [call EXCEPT ![w] = NoCall]
    /\ probe' = [fn |-> "none"]
    /\ UNCHANGED <<bids, winner, algorithm_weights, algorithm_version, cache,
                   history, pattern_run, other>>

NextAlert ==
    \/ NewBid(NarrowEnv)
    \/ Award
    \/ Call("w1")
    \/ RunSingleBidder("w1", NarrowEnv)
    \/ RunPriceAnomaly("w1", NarrowEnv)
    \/ RunFrequentWinner("w1", NarrowEnv)
    \/ RunGeographic("w1", NarrowEnv)
    \/ DetectorFault("w1")
    \/ DetectorHang("w1")
    \/ Aggregate("w1")
    \/ Release("w1", {"raised"})
    \/ GenerateAlerts("w1")
    \/ AlertsDelivered("w1")
    \/ ProbeAlerts

AlertSpec == Init /\ [][NextAlert]_vars

(***************************************************************************)
(* The single caller under weak fairness of every step the code and its    *)
(* collaborators can take: whatever is enabled is eventually done.         *)
(***************************************************************************)
FairSpec == Init /\ [][Next]_vars /\ WF_vars(Next)

(***************************************************************************)
(* Properties                                                              *)
(***************************************************************************)
Range(s) == {s[i] : i \in 1..Len(s)}

SubScores(r) ==
    [single_bidder |-> r.single_bidder_risk, price_anomaly |-> r.price_anomaly_risk,
     frequent_winner |-> r.frequency_risk, geographic |-> r.geographic_risk]

WeightOf(d) ==
    CASE d = "single_bidder" -> algorithm_weights.single_bidder_detection
      [] d = "price_anomaly" -> algorithm_weights.price_anomaly_detection
      [] d = "frequent_winner" -> algorithm_weights.frequent_winner_detection
      [] d = "geographic" -> algorithm_weights.geographic_clustering_detection

RECURSIVE SumOver(_, _)
SumOver(f, S) ==
    IF S = {} THEN 0
    ELSE LET x == CHOOSE y \in S : TRUE IN f[x] + SumOver(f, S \ {x})

\* the sum over the detectors in D of sub-score times weight, in hundredths
WeightedSumOf(r, D) ==
    SumOver([d \in Detectors |-> SubScores(r)[d] * WeightOf(d)], D)

\* s without the later occurrences of its elements
RECURSIVE FirstOccurrences(_)
FirstOccurrences(s) ==
    IF s = <<>> THEN <<>>
    ELSE LET init == FirstOccurrences(SubSeq(s, 1, Len(s) - 1))
             last == s[Len(s)]
         IN IF last \in Range(init) THEN init ELSE Append(init, last)

EndedDetectors(w) == {d \in Detectors : det[w][d].status # "pending"}
RaisedDetectors(w) == {d \in Detectors : det[w][d].status = "raised"}
OkDetectors(w) == {d \in Detectors : det[w][d].status = "ok"}

\* C1: every detector sub-score lies in [0,100] and every composite score a
\* caller receives lies in [0,100] (0..10000 hundredths), whatever the bids,
\* the historical samples, the participation counts and the locations are.
C1_ScoresInRange ==
    \A w \in Workers :
       /\ \A d \in OkDetectors(w) : det[w][d].risk_score \in 0..100
       /\ result[w] # NoResult =>
             /\ result[w].overall_risk_score \in 0..10000
             /\ \A d \in Detectors : SubScores(result[w])[d] \in 0..100

\* a result whose single-bidder and frequent-winner sums both passed 100
\* before the clamp (75+15+10+20 and 40+20+25+30+15)
C1_Witness ==
    /\ result["w1"] # NoResult
    /\ result["w1"].single_bidder_risk = 100
    /\ Len(det["w1"]["single_bidder"].risk_factors) = 4
    /\ result["w1"].frequency_risk = 100
    /\ Len(det["w1"]["frequent_winner"].risk_factors) = 5

\* C2: the composite score is the weighted sum of the four sub-scores clamped
\* to [0,100], for any configured weights, also weights that sum to more than 1.
C2_ClampedWeightedSum ==
    \A w \in Workers :
       result[w] # NoResult =>
          result[w].overall_risk_score =
             Min(10000, WeightedSumOf(result[w], Detectors))

\* C3: the risk level is decided by the composite score alone: critical from
\* 80, high from 60 to below 80, medium from 30 to below 60, low below 30; so
\* no lower score has a higher level.
LevelRank(level) ==
    CASE level = "low" -> 0 [] level = "medium" -> 1
      [] level = "high" -> 2 [] level = "critical" -> 3

LevelProbes == {0, 2999, 3000, 3001, 5999, 6000, 6001, 7999, 8000, 8001, 10000}

C3_LevelByThresholds ==
    \A w \in Workers :
       result[w] # NoResult =>
          LET score == result[w].overall_risk_score
              level == result[w].risk_level
          IN /\ (level = "critical") = (score >= 8000)
             /\ (level = "high") = (score >= 6000 /\ score < 8000)
             /\ (level = "medium") = (score >= 3000 /\ score < 6000)
             /\ (level = "low") = (score < 3000)
             /\ \A lower \in {p \in LevelProbes : p <= score} :
                   LevelRank(determine_risk_level(lower)) <= LevelRank(level)

\* a result whose composite score sits exactly on the "high" threshold
C3_Witness ==
    /\ result["w1"] # NoResult
    /\ result["w1"].overall_risk_score = 6000
    /\ result["w1"].risk_level = "high"

\* C4: when exactly one detector throws and the other three succeed, the
\* assessment returns a result in which the failed detector counts 0, the
\* composite is the weighted sum of the three others, and risk_factors has
\* partial_analysis.
C4_PartialFailureIsolated ==
    \A w \in Workers :
       (/\ Cardinality(RaisedDetectors(w)) = 1
        /\ Cardinality(OkDetectors(w)) = 3
        /\ pc[w] \notin Detectors \cup {"aggregate"})
       => /\ result[w] # NoResult
          /\ \A d \in RaisedDetectors(w) : SubScores(result[w])[d] = 0
          /\ result[w].overall_risk_score = WeightedSumOf(result[w], OkDetectors(w))
          /\ "partial_analysis" \in Range(result[w].risk_factors)

\* C5: no assessment ends in an error; when all four detectors failed the
\* caller still has a result with all sub-scores 0, level low and a
\* partial_analysis or no_data tag.
C5_NeverAnError ==
    \A w \in Workers :
       /\ pc[w] # "raised"
       /\ RaisedDetectors(w) = Detectors =>
             /\ result[w] # NoResult
             /\ \A d \in Detectors : SubScores(result[w])[d] = 0
             /\ result[w].risk_level = "low"
             /\ Range(result[w].risk_factors) \cap {"partial_analysis", "no_data"} # {}

\* C6: risk_factors of a composite result holds every tag once, in the order
\* of first occurrence across single-bidder, price-anomaly, frequent-winner,
\* geographic, also when a detector emitted a tag several times.
C6_FactorsDeduplicated ==
    \A w \in Workers :
       (result[w] # NoResult /\ OkDetectors(w) = Detectors) =>
          result[w].risk_factors =
             FirstOccurrences(det[w]["single_bidder"].risk_factors
                              \o det[w]["price_anomaly"].risk_factors
                              \o det[w]["frequent_winner"].risk_factors
                              \o det[w]["geographic"].risk_factors)

\* C7: the aggregator composes and emits a result only after each of the four
\* detectors of that assessment has ended; none is pending or in flight.
C7_Barrier ==
    \A w \in Workers :
       (pc[w] \in {"aggregate", "computed"} \/ result[w] # NoResult) =>
          /\ EndedDetectors(w) = Detectors
          /\ pc[w] \notin Detectors

\* a composed result, the four detectors having answered one after the other
C7_Witness ==
    /\ pc["w1"] = "computed"
    /\ result["w1"] # NoResult
    /\ OkDetectors("w1") = Detectors
    /\ det["w1"]["geographic"].risk_score > 0

\* C8: an assessment whose detector never answers still returns a result: the
\* call times out and is handled as a detector failure (partial_analysis).
C8_TimeoutIsolated ==
    \A w \in Workers :
       (pc[w] = "hung") ~>
          (/\ result[w] # NoResult
           /\ "partial_analysis" \in Range(result[w].risk_factors))

\* C9: a cache write that carries an older source data version never replaces
\* an entry of a newer version, whatever the order of completion.
C9_NewerEntryKept ==
    [][(cache # NoEntry /\ cache' # NoEntry) =>
          cache'.data_version >= cache.data_version]_vars

\* C10: a result cached under one algorithm version is never returned by a
\* lookup made under another algorithm version.
C10_LookupByVersion ==
    \A w \in Workers :
       call[w].served_by = "cache" =>
          call[w].cached_under = call[w].algorithm_version

C12_Idempotent ==
    \A w1 \in Workers, w2 \in Workers :
       (/\ pc[w1] = "returned" /\ pc[w2] = "returned"
        /\ call[w1].data_version = DataVersion
        /\ call[w2].data_version = DataVersion
        /\ call[w1].algorithm_version = call[w2].algorithm_version)
       => result[w1] = result[w2]

\* C13: the stored results of a tender form an append-only history: a step
\* leaves every stored row where it was and as it was, and adds at most one
\* row, at the end, which is then the current one.
C13_HistoryAppendOnly ==
    [][/\ Len(history') \in {Len(history), Len(history) + 1}
       /\ \A i \in 1..Len(history) : history'[i] = history[i]]_vars

\* a re-assessment after the award has added a second row that differs from
\* the first, which is still there
C13_Witness ==
    /\ Len(history) >= 2
    /\ history[1].frequency_risk = 0
    /\ history[Len(history)].frequency_risk > 0

\* C14: per-tender scoring never depends on the pattern detector: whatever the
\* pattern set holds and whether the pattern run is idle, running or
\* unavailable, the aggregation step can be taken, and the result has the
\* detectors' sub-scores, their weighted sum and the level of that sum.
C14_PatternIndependent ==
    \A w \in Workers :
       /\ pc[w] = "aggregate" => ENABLED Aggregate(w)
       /\ pc[w] = "computed" =>
             /\ \A d \in Detectors : SubScores(result[w])[d] = det[w][d].risk_score
             /\ result[w].overall_risk_score = WeightedSumOf(result[w], Detectors)
             /\ LevelRank(result[w].risk_level) =
                   Cardinality({t \in {3000, 6000, 8000} :
                                  result[w].overall_risk_score >= t})

\* a result composed while the pattern set is populated and the pattern
\* detector is unavailable
C14_Witness ==
    /\ pc["w1"] = "computed"
    /\ result["w1"].overall_risk_score > 0
    /\ pattern_run.status = "unavailable"
    /\ pattern_run.patterns # <<>>

\* what calculate_composite_risk_score composes for a tender with bids b, the
\* database answering as in E, when the frequent-winner detector sees an
\* award or not (fw_award) and the geographic detector does (geo_award)
ResultOn(E, b, fw_award, geo_award) ==
    LET one(S) == CHOOSE x \in S : TRUE
    IN ComposeResult(
          algorithm_weights,
          analyze_tender_risk(one(E.tenders), b, one(E.authority_counts)),
          analyze_price_anomaly(b, one(E.historical), one(E.anomaly_scores),
                                one(E.winner_analyses)),
          analyze_frequent_winner_risk(fw_award, one(E.authority_stats),
                                       one(E.sector_stats),
                                       one(E.geographic_analyses), one(E.monthly)),
          analyze_geographic_clustering(geo_award, one(E.locations),
                                        one(E.clusters),
                                        one(E.distance_analyses)))

\* the same when nothing else runs and the winner is wnr throughout
AloneResult(E, b, wnr) == ResultOn(E, b, wnr > 0, wnr > 0)

\* the results tender "B" can have: it keeps its one bid, its award may come
\* before, between or after the reads of the last two detectors
OtherResults ==
    {ResultOn(OtherEnv, other.bids, fw, geo) : fw \in BOOLEAN, geo \in BOOLEAN}

\* C15: assessments of different tenders on different workers do not
\* interfere: a call that computed on unchanged data of its tender returns
\* what it returns when run alone, a tender's cache entry holds a result of
\* that tender, and a call served from the cache returns a result of its own
\* tender.
C15_TendersIndependent ==
    /\ (/\ pc["w1"] = "returned" /\ call["w1"].served_by = "computation"
        /\ call["w1"].data_version = DataVersion)
       => result["w1"] = AloneResult(NarrowEnv, bids, winner)
    /\ (/\ pc["w2"] = "returned" /\ call["w2"].served_by = "computation"
        /\ call["w2"].data_version = OtherDataVersion)
       => result["w2"] = AloneResult(OtherEnv, other.bids, other.winner)
    /\ pc["w1"] = "returned" => result["w1"] \notin OtherResults
    /\ pc["w2"] = "returned" => result["w2"] \in OtherResults
    /\ cache.status = "cached" => cache.value \notin OtherResults
    /\ other.cache.status = "cached" => other.cache.value \in OtherResults

\* both tenders assessed and cached at once, the second call of "B" served
\* from its own entry while "A" holds a different result
C15_Witness ==
    /\ pc["w1"] = "returned" /\ pc["w2"] = "returned"
    /\ call["w1"].served_by = "computation"
    /\ call["w2"].served_by = "cache"
    /\ cache.status = "cached" /\ other.cache.status = "cached"
    /\ cache.value # other.cache.value

\* the additions of the single-bidder score for a probe's inputs
HighValue(t) == t.estimated_value > 500000
CriticalSector(t) == t.cpv_code \in {"45000000", "72000000", "79000000"}
RepeatAuthority(scalar) == scalar # None /\ scalar >= 3

\* C16: with exactly one bid, single_bidder_risk = min(100, 75 + 15 if the
\* value is above the high-value threshold + 10 if the CPV code is critical
\* + 20 if the authority's single-bidder count reaches the repeat threshold);
\* one bid with high value and critical CPV gives exactly 100 and the tags
\* single_bidder, high_value_single_bidder, critical_sector_single_bidder.
C16_SingleBidderFormula ==
    (probe.fn = "analyze_tender_risk" /\ Len(probe.bids) = 1) =>
       /\ probe.out.status = "ok"
       /\ probe.out.risk_score =
             Min(100, 75 + (IF HighValue(probe.tender) THEN 15 ELSE 0)
                         + (IF CriticalSector(probe.tender) THEN 10 ELSE 0)
                         + (IF RepeatAuthority(probe.scalar) THEN 20 ELSE 0))
       /\ (HighValue(probe.tender) /\ CriticalSector(probe.tender)) =>
             /\ probe.out.risk_score = 100
             /\ {"single_bidder", "high_value_single_bidder",
                 "critical_sector_single_bidder"}
                   \subseteq Range(probe.out.risk_factors)

\* one bid, high value, critical CPV and a repeat authority: 120 before the clamp
C16_Witness ==
    /\ probe.fn = "analyze_tender_risk"
    /\ Len(probe.bids) = 1
    /\ HighValue(probe.tender) /\ CriticalSector(probe.tender)
    /\ RepeatAuthority(probe.scalar)
    /\ probe.out.risk_score = 100

\* C17: with zero bids the single-bidder detector returns normally with score
\* 0 and no tags, and a missing authority history counts as 0 single-bidder
\* tenders instead of raising.
C17_ZeroBidsAndNoHistory ==
    probe.fn = "analyze_tender_risk" =>
       /\ probe.out.status = "ok"
       /\ Len(probe.bids) = 0 =>
             (probe.out.risk_score = 0 /\ probe.out.risk_factors = <<>>)
       /\ probe.scalar = None =>
             "repeat_authority_single_bidder" \notin Range(probe.out.risk_factors)

\* the inputs of a probe with one risk factor taken away: a second bid added,
\* the value lowered to the threshold, the CPV code moved out of the critical
\* set, the authority's count lowered below the repeat threshold
WithoutOneFactor(p) ==
    {[p EXCEPT !.bids = Append(p.bids, 100)],
     [p EXCEPT !.tender.estimated_value = 500000],
     [p EXCEPT !.tender.cpv_code = "33000000"],
     [p EXCEPT !.scalar = 2]}

\* C18: single_bidder_risk is monotone in its risk factors: going from two
\* bids to one, raising the value above the threshold, moving the CPV code
\* into the critical set or raising the authority's count to the repeat
\* threshold never decreases the score.
C18_Monotone ==
    (probe.fn = "analyze_tender_risk" /\ Len(probe.bids) = 1) =>
       \A q \in WithoutOneFactor(probe) :
          LET before == analyze_tender_risk(
                           q.tender, q.bids,
                           count_authority_single_bidder_tenders(q.scalar))
          IN /\ before.status = "ok"
             /\ probe.out.status = "ok"
             /\ before.risk_score <= probe.out.risk_score

OutlierTags ==
    {"unusually_low_price", "unusually_high_price", "price_pattern_anomaly"}
SpreadTags == {"suspiciously_similar_bids", "unusual_bid_spread"}

\* what the bid-spread tags of a result stand for: 30 and 15
SpreadPoints(tags) ==
    (IF "suspiciously_similar_bids" \in tags THEN 30 ELSE 0)
    + (IF "unusual_bid_spread" \in tags THEN 15 ELSE 0)

C20_SimilarBids ==
    probe.fn = "analyze_price_anomaly" =>
       /\ (/\ Len(probe.bids) > 2
           /\ 400 * VarN(probe.bids) < Sum(probe.bids) * Sum(probe.bids))
          => /\ probe.out.risk_score >= 30
             /\ "suspiciously_similar_bids" \in Range(probe.out.risk_factors)
       /\ Len(probe.bids) = 2 =>
             "suspiciously_similar_bids" \notin Range(probe.out.risk_factors)

\* three bids within 2% of each other, not all equal
C20_Witness ==
    /\ probe.fn = "analyze_price_anomaly"
    /\ probe.bids = <<100, 102, 100>>
    /\ "suspiciously_similar_bids" \in Range(probe.out.risk_factors)
    /\ probe.out.risk_score = 30

\* C21: a winning company with at least min_tender_count participations with
\* the tender's authority and an authority win rate of 0.8 or more gets a
\* frequency risk of at least 60 and both authority win-rate tags
HighAuthorityWinRate(stats) ==
    /\ stats.participations >= min_tender_count
    /\ 10 * stats.wins >= 8 * stats.participations

C21_ExtremeAuthorityWinRate ==
    (probe.fn = "analyze_frequent_winner_risk" /\ probe.has_winning_bid
     /\ HighAuthorityWinRate(probe.authority_stats))
    => /\ probe.out.status = "ok"
       /\ probe.out.risk_score >= 60
       /\ "high_authority_win_rate" \in Range(probe.out.risk_factors)
       /\ "extremely_high_authority_win_rate" \in Range(probe.out.risk_factors)

\* C21 witness: 8 wins in 10 participations, nothing else contributing: the
\* score is exactly 60
C21_Witness ==
    /\ probe.fn = "analyze_frequent_winner_risk"
    /\ probe.has_winning_bid
    /\ probe.authority_stats = Stats(10, 8)
    /\ probe.out.risk_score = 60
    /\ probe.out.risk_factors
         = <<"high_authority_win_rate", "extremely_high_authority_win_rate">>

\* C22: without a winning bid the frequent-winner detector returns score 0 and
\* no tags; an authority or sector check with fewer than min_tender_count
\* participations adds no points and no tag; no win-rate division has a zero
\* divisor
AuthorityTags == {"high_authority_win_rate", "extremely_high_authority_win_rate"}
SectorTags == {"high_sector_win_rate"}

PointsWithout(scope_tags) ==
    LET a == analyze_authority_win_rate(probe.authority_stats)
        s == analyze_sector_win_rate(probe.sector_stats)
        t == analyze_temporal_patterns(probe.monthly_wins)
    IN (IF scope_tags = AuthorityTags THEN 0 ELSE a.risk_score)
       + (IF scope_tags = SectorTags THEN 0 ELSE s.risk_score)
       + probe.geographic_analysis.risk_score + t.risk_score

C22_NoWinnerOrTooFewParticipations ==
    probe.fn = "analyze_frequent_winner_risk"
    => /\ ~probe.has_winning_bid => probe.out = Ok(0, <<>>)
       /\ (probe.has_winning_bid
           /\ probe.authority_stats.participations < min_tender_count)
          => /\ Range(probe.out.risk_factors) \cap AuthorityTags = {}
             /\ probe.out.risk_score = Min(100, PointsWithout(AuthorityTags))
       /\ (probe.has_winning_bid
           /\ probe.sector_stats.participations < min_tender_count)
          => /\ Range(probe.out.risk_factors) \cap SectorTags = {}
             /\ probe.out.risk_score = Min(100, PointsWithout(SectorTags))
       /\ 0 \notin Range(probe.divisors)

\* C22 witness: 4 wins in 4 participations with the authority, none in the
\* sector, and the detector returns 0 with no tags for a tender with a winner
C22_Witness ==
    /\ probe.fn = "analyze_frequent_winner_risk"
    /\ probe.has_winning_bid
    /\ probe.authority_stats = Stats(4, 4)
    /\ probe.sector_stats = Stats(0, 0)
    /\ probe.divisors = <<>>
    /\ probe.out = Ok(0, <<>>)

\* C23: the geographic detector returns score 0 and no tags whenever the
\* coordinates of the authority or of the winning company are missing, and a
\* cluster of fewer than min_cluster_size tenders adds no cluster penalty
ClusterTags == {"high_geographic_cluster_win_rate", "geographic_monopoly_pattern"}

C23_MissingCoordinatesOrSmallCluster ==
    probe.fn = "analyze_geographic_clustering"
    => /\ (~probe.has_authority_location \/ ~probe.has_company_location)
          => probe.out = Ok(0, <<>>)
       /\ probe.cluster.total_tenders < min_cluster_size
          => /\ Range(probe.out.risk_factors) \cap ClusterTags = {}
             /\ probe.out.risk_score <= probe.distance_analysis.risk_score

\* C27: with a winner and an authority location, a cluster of at least
\* min_cluster_size tenders adds 35 and high_geographic_cluster_win_rate at a
\* win rate of 0.7 or more, and 25 more and geographic_monopoly_pattern at 0.9
\* or more; the cluster's part of the score is 0, 35 or 60 and the monopoly
\* tag never comes without the high tag
ClusterContribution == probe.out.risk_score - probe.distance_analysis.risk_score

ClusterRateAtLeast(tenths) ==
    /\ probe.cluster.total_tenders >= min_cluster_size
    /\ 10 * probe.cluster.wins >= tenths * probe.cluster.total_tenders

C27_ClusterPenalties ==
    (probe.fn = "analyze_geographic_clustering" /\ probe.has_winning_bid
     /\ probe.has_authority_location)
    => LET tags == Range(probe.out.risk_factors)
       IN /\ probe.out.status = "ok"
          /\ "high_geographic_cluster_win_rate" \in tags <=> ClusterRateAtLeast(7)
          /\ "geographic_monopoly_pattern" \in tags <=> ClusterRateAtLeast(9)
          /\ "geographic_monopoly_pattern" \in tags
             => "high_geographic_cluster_win_rate" \in tags
          /\ ClusterContribution \in {0, 35, 60}
          /\ ClusterContribution
             = (IF ClusterRateAtLeast(9) THEN 60
                ELSE IF ClusterRateAtLeast(7) THEN 35 ELSE 0)

\* C27 witness: 7 wins in 10 tenders of the cluster add exactly 35 and the
\* high tag alone
C27_Witness ==
    /\ probe.fn = "analyze_geographic_clustering"
    /\ probe.has_winning_bid /\ probe.has_authority_location
    /\ probe.cluster = Cluster(10, 7)
    /\ ClusterContribution = 35
    /\ Range(probe.out.risk_factors) \cap ClusterTags
         = {"high_geographic_cluster_win_rate"}

\* C24: a high_risk_tender alert is emitted exactly when the composite score
\* is at least 60; its severity is high from 80 on and medium below; the
\* alert exists exactly for the risk levels high and critical
AlertsOfType(alerts, type) ==
    {i \in 1..Len(alerts) : alerts[i].alert_type = type}

C24_HighRiskTenderAlert ==
    probe.fn = "generate_alerts"
    => LET score == probe.risk_analysis.overall_risk_score
           hits == AlertsOfType(probe.out, "high_risk_tender")
       IN /\ Cardinality(hits) = (IF score >= 6000 THEN 1 ELSE 0)
          /\ \A i \in hits :
                probe.out[i].severity = (IF score >= 8000 THEN "high" ELSE "medium")
          /\ hits # {} <=> probe.risk_analysis.risk_level \in {"high", "critical"}

\* C24 witness: a composite score of exactly 60.00 gets the alert, with
\* severity medium, and no other alert
C24_Witness ==
    /\ probe.fn = "generate_alerts"
    /\ probe.risk_analysis.overall_risk_score = 6000
    /\ probe.risk_analysis.single_bidder_risk = 0
    /\ Len(probe.out) = 1
    /\ probe.out[1].alert_type = "high_risk_tender"
    /\ probe.out[1].severity = "medium"

\* C28: a single_bidder_risk alert, of severity high, is emitted exactly when
\* the result's single_bidder_risk is at least 75, whether or not the
\* composite score reaches 60; so the alerts generated from the assessment of
\* a tender whose data has not changed since include it exactly when the
\* tender has one bid
C28_SingleBidderAlert ==
    probe.fn = "generate_alerts"
    => LET hits == AlertsOfType(probe.out, "single_bidder_risk")
       IN /\ Cardinality(hits)
             = (IF probe.risk_analysis.single_bidder_risk >= 75 THEN 1 ELSE 0)
          /\ \A i \in hits : probe.out[i].severity = "high"
          /\ (probe.source = "assessment" /\ probe.data_unchanged)
             => (hits # {} <=> probe.bid_count = 1)

\* C28 witness: the assessment of a one-bid tender with a composite score
\* below 60 produces the single_bidder_risk alert and no high_risk_tender alert
C28_Witness ==
    /\ probe.fn = "generate_alerts"
    /\ probe.source = "assessment"
    /\ probe.data_unchanged
    /\ probe.bid_count = 1
    /\ probe.risk_analysis.overall_risk_score < 6000
    /\ AlertsOfType(probe.out, "high_risk_tender") = {}
    /\ AlertsOfType(probe.out, "single_bidder_risk") # {}

\* the points each tag of the three sub-checks of spec 4.2 stands for
TagPoints(tag) ==
    CASE tag = "unusually_low_price" -> 25
      [] tag = "unusually_high_price" -> 15
      [] tag = "price_pattern_anomaly" -> 20
      [] tag = "suspiciously_similar_bids" -> 30
      [] tag = "unusual_bid_spread" -> 15
      [] OTHER -> 0

PointsOf(factors) == Sum([i \in 1..Len(factors) |-> TagPoints(factors[i])])

C26_NoDivisionByZero ==
    (probe.fn = "analyze_price_anomaly" /\ probe.bids # <<>>)
    => LET tags == Range(probe.out.risk_factors)
           n == Len(probe.out.risk_factors) - Len(probe.winner_analysis.risk_factors)
       IN /\ probe.out.status = "ok"
          /\ (Sum(probe.historical_data) = 0 \/ VarN(probe.historical_data) = 0)
             => /\ tags \cap {"unusually_low_price", "unusually_high_price"} = {}
                /\ probe.out.risk_score
                   = Min(100, SpreadPoints(tags)
                              + (IF "price_pattern_anomaly" \in tags THEN 20 ELSE 0)
                              + probe.winner_analysis.risk_score)
          /\ (Sum(probe.bids) = 0 /\ Len(probe.bids) >= 2)
             => /\ "unusual_bid_spread" \notin tags
                /\ "suspiciously_similar_bids" \in tags <=> Len(probe.bids) > 2

\* C26 witness: bids of 0 and 400 against ten historical prices of 100 each,
\* which leave the outlier check silent and only the spread check firing
C26_Witness ==
    /\ probe.fn = "analyze_price_anomaly"
    /\ probe.bids = <<0, 400>>
    /\ probe.historical_data = HistFlat10
    /\ probe.winner_analysis = NoPart
    /\ probe.out = Ok(15, <<"unusual_bid_spread">>)

\* C29: a company_monopoly pattern is reported for a (company, authority)
\* pair exactly when the company won at least 5 of the authority's tenders of
\* the window and more than 60% of them; a reported pattern has
\* pattern_score = min(10 * wins, 100), between 50 and 100
C29_CompanyMonopoly ==
    probe.fn = "detect_company_monopoly"
    => LET wins == probe.group.total_wins
           tenders == probe.group.authority_tenders
       IN /\ Len(probe.out) = (IF wins >= 5 /\ 10 * wins > 6 * tenders
                               THEN 1 ELSE 0)
          /\ \A i \in 1..Len(probe.out) :
                /\ probe.out[i].pattern_type = "company_monopoly"
                /\ probe.out[i].pattern_score = Min(10 * wins, 100)
                /\ probe.out[i].pattern_score \in 50..100

\* C29 witness: 7 wins among the authority's 11 tenders of the window are a
\* monopoly of score 70
C29_Witness ==
    /\ probe.fn = "detect_company_monopoly"
    /\ probe.group.total_wins = 7
    /\ probe.group.authority_tenders = 11
    /\ Len(probe.out) = 1
    /\ probe.out[1].pattern_score = 70

\* C30: for a tender with two or more bids the single-bidder detector yields
\* score 0 and no tags, whatever the estimated value, the CPV code and the
\* authority's single-bidder count are
C30_SeveralBidsScoreZero ==
    (probe.fn = "analyze_tender_risk" /\ Len(probe.bids) >= 2)
    => probe.out = Ok(0, <<>>)

====
